---- MODULE Spec2Model ----
(***************************************************************************)
(* The connection layer of the HTTP client: the protocol-selecting facade  *)
(* HTTPConnection (src/httpcore/connection.py) and the HTTP/1.1 driver     *)
(* HTTP11Connection (src/httpcore/http11.py), together with the part of    *)
(* the h11 protocol-state machine the driver calls (h11.Connection.send,   *)
(* next_event, receive_data, start_next_cycle, our_state, their_state).    *)
(***************************************************************************)
EXTENDS Naturals, Sequences, FiniteSets, TLC

\* ------------------------------------------------------------------ bounds
\* informational (1xx) responses the peer may send before the final response
MaxInfo == 2
\* bytes of a Content-Length bounded response body
MaxBody == 2
\* chunks produced by the request's body source
MaxChunks == 1
\* exchanges accepted by one driver (consecutive keep-alive cycles)
MaxSends == 2
\* driver instances one facade may come to construct
MaxDrivers == 2
\* invocations of the release hook within one exchange
MaxReleases == 2

None == "None"

\* ------------------------------------------------------------- h11 states
IDLE == "IDLE"
SEND_RESPONSE == "SEND_RESPONSE"
SEND_BODY == "SEND_BODY"
DONE == "DONE"
MUST_CLOSE == "MUST_CLOSE"
CLOSED == "CLOSED"
ERROR == "ERROR"
REJECT == "REJECT"

\* ------------------------------------------------------------ wire tokens
\* What the peer puts on the wire, in units the h11 readers parse whole.
InfoTok == [t |-> "Info", n |-> 100, close |-> FALSE]
RespTok(len, cl) == [t |-> "Resp", n |-> len, close |-> cl]
ByteTok(i) == [t |-> "Byte", n |-> i, close |-> FALSE]
BadTok == [t |-> "Bad", n |-> 0, close |-> FALSE]

RECURSIVE Infos(_)
Infos(k) == IF k = 0 THEN <<>> ELSE <<InfoTok>> \o Infos(k - 1)

BodyBytes(len) == [i \in 1..len |-> ByteTok(i)]

\* k informational responses, the final response announcing Content-Length
\* len (with or without Connection: close), then the len bytes of the body.
Script(k, len, cl) == Infos(k) \o <<RespTok(len, cl)>> \o BodyBytes(len)

Scripts ==
    {Script(k, len, cl) : k \in 0..MaxInfo, len \in 0..MaxBody, cl \in BOOLEAN}
        \cup {<<BadTok>>}

Take(s, n) == SubSeq(s, 1, n)
Drop(s, n) == SubSeq(s, n + 1, Len(s))
Min(a, b) == IF a < b THEN a ELSE b

\* ------------------------------------------------- the h11 state machine
\* h11.Connection(our_role=CLIENT): the two role states, the keep-alive
\* flag, the receive buffer and the Content-Length reader's countdown.
H11Init ==
    [our_state |-> IDLE, their_state |-> IDLE, keep_alive |-> TRUE,
     receive_buffer |-> <<>>, receive_buffer_closed |-> FALSE, remaining |-> 0]

\* event-triggered transitions of the CLIENT role
ClientTransition(s, ev) ==
    CASE s = IDLE /\ ev = "Request" -> SEND_BODY
      [] s = IDLE /\ ev = "ConnectionClosed" -> CLOSED
      [] s = SEND_BODY /\ ev = "Data" -> SEND_BODY
      [] s = SEND_BODY /\ ev = "EndOfMessage" -> DONE
      [] s \in {DONE, MUST_CLOSE, CLOSED} /\ ev = "ConnectionClosed" -> CLOSED
      [] OTHER -> REJECT

\* event-triggered transitions of the SERVER role ("RequestSeen" is the
\* client's Request as the server role sees it)
ServerTransition(s, ev) ==
    CASE s = IDLE /\ ev = "ConnectionClosed" -> CLOSED
      [] s = IDLE /\ ev = "Response" -> SEND_BODY
      [] s = IDLE /\ ev = "RequestSeen" -> SEND_RESPONSE
      [] s = SEND_RESPONSE /\ ev = "InformationalResponse" -> SEND_RESPONSE
      [] s = SEND_RESPONSE /\ ev = "Response" -> SEND_BODY
      [] s = SEND_BODY /\ ev = "Data" -> SEND_BODY
      [] s = SEND_BODY /\ ev = "EndOfMessage" -> DONE
      [] s \in {DONE, MUST_CLOSE, CLOSED} /\ ev = "ConnectionClosed" -> CLOSED
      [] OTHER -> REJECT

\* one pass of the state-triggered transitions
FireOnce(h) ==
    LET o1 == IF ~h.keep_alive /\ h.our_state = DONE THEN MUST_CLOSE ELSE h.our_state
        t1 == IF ~h.keep_alive /\ h.their_state = DONE THEN MUST_CLOSE ELSE h.their_state
        o2 == IF o1 = DONE /\ t1 \in {CLOSED, ERROR} THEN MUST_CLOSE ELSE o1
        t2 == IF (o1 = CLOSED /\ t1 \in {DONE, IDLE}) \/ (o1 = ERROR /\ t1 = DONE)
              THEN MUST_CLOSE ELSE t1
    IN [h EXCEPT !.our_state = o2, !.their_state = t2]

\* the state-triggered transitions, run to their fixed point
FireStateTriggered(h) == FireOnce(FireOnce(FireOnce(h)))

ProcessError(h, role) ==
    FireStateTriggered(IF role = "CLIENT" THEN [h EXCEPT !.our_state = ERROR]
                       ELSE [h EXCEPT !.their_state = ERROR])

\* h11.Connection.send(event) for the client role: the new state and
\* whether LocalProtocolError was raised. connClose: the Request carries
\* Connection: close.
H11Send(h, ev, connClose) ==
    IF h.our_state = ERROR THEN [h |-> h, raised |-> TRUE]
    ELSE LET o == ClientTransition(h.our_state, ev)
             t == IF ev = "Request" THEN ServerTransition(h.their_state, "RequestSeen")
                  ELSE h.their_state
         IN IF o = REJECT \/ t = REJECT
            THEN [h |-> ProcessError(h, "CLIENT"), raised |-> TRUE]
            ELSE [h |-> FireStateTriggered(
                          [h EXCEPT !.our_state = o, !.their_state = t,
                                    !.keep_alive = @ /\ ~(ev = "Request" /\ connClose)]),
                  raised |-> FALSE]

\* h11.Connection.receive_data(data): b"" marks the peer's end of stream
H11ReceiveData(h, data) ==
    IF data = <<>> THEN [h EXCEPT !.receive_buffer_closed = TRUE]
    ELSE [h EXCEPT !.receive_buffer = @ \o data]

RemoteError(h) ==
    [h |-> ProcessError(h, "SERVER"), event |-> "RemoteProtocolError",
     data |-> <<>>, status |-> 0]

PeerEvent(h, ev, data, status) ==
    [h |-> FireStateTriggered(h), event |-> ev, data |-> data, status |-> status]

NeedData(h) == [h |-> h, event |-> "NEED_DATA", data |-> <<>>, status |-> 0]

\* h11.Connection.next_event(): parse one event of the peer from the
\* receive buffer, by the reader of the peer's current state.
H11NextEvent(h) ==
    LET buf == h.receive_buffer
        eof == buf = <<>> /\ h.receive_buffer_closed
        peerClosed ==
            IF ServerTransition(h.their_state, "ConnectionClosed") = REJECT
            THEN RemoteError(h)
            ELSE PeerEvent([h EXCEPT !.their_state = CLOSED], "ConnectionClosed", <<>>, 0)
    IN CASE h.their_state = ERROR ->
              [h |-> h, event |-> "RemoteProtocolError", data |-> <<>>, status |-> 0]
         [] h.their_state \in {IDLE, SEND_RESPONSE} ->
              IF buf = <<>> THEN (IF eof THEN peerClosed ELSE NeedData(h))
              ELSE LET tok == Head(buf)
                       ev == IF tok.t = "Info" THEN "InformationalResponse"
                             ELSE IF tok.t = "Resp" THEN "Response" ELSE "Bad"
                       s == ServerTransition(h.their_state, ev)
                   IN IF s = REJECT THEN RemoteError(h)
                      ELSE PeerEvent(
                             [h EXCEPT !.their_state = s,
                                       !.receive_buffer = Tail(buf),
                                       !.remaining = IF ev = "Response" THEN tok.n ELSE @,
                                       !.keep_alive = @ /\ ~(ev = "Response" /\ tok.close)],
                             ev, <<>>, IF ev = "Response" THEN 200 ELSE tok.n)
         [] h.their_state = SEND_BODY ->
              IF h.remaining = 0
              THEN PeerEvent([h EXCEPT !.their_state = DONE], "EndOfMessage", <<>>, 0)
              ELSE IF buf = <<>> THEN (IF eof THEN RemoteError(h) ELSE NeedData(h))
              ELSE LET n == Min(h.remaining, Len(buf))
                   IN PeerEvent([h EXCEPT !.receive_buffer = Drop(buf, n),
                                          !.remaining = @ - n],
                                "Data", Take(buf, n), 0)
         [] h.their_state = DONE ->
              IF buf # <<>> THEN [h |-> h, event |-> "PAUSED", data |-> <<>>, status |-> 0]
              ELSE IF eof THEN peerClosed ELSE NeedData(h)
         [] OTHER ->
              IF buf # <<>> THEN RemoteError(h)
              ELSE IF eof THEN peerClosed ELSE NeedData(h)

\* h11.Connection.start_next_cycle(): both roles back to IDLE
H11StartNextCycle(h) ==
    IF h.our_state = DONE /\ h.their_state = DONE
    THEN [h EXCEPT !.our_state = IDLE, !.their_state = IDLE]
    ELSE h

\* ------------------------------------------------------------------ state
VARIABLES
    \* HTTPConnection (the facade)
    h11_connection,   \* None, or the bound HTTP11Connection
    h2_connection,    \* None, or the bound HTTP2Connection
    release_func,     \* whether a release hook was supplied
    h2_closed,        \* the HTTP2Connection's is_closed (external collaborator)
    drivers,          \* driver instances constructed so far
    \* HTTP11Connection (the object h11_connection refers to)
    driver,           \* h11_state, writer, on_release and what the hook has seen
    \* the send coroutine in flight on the driver, and its Response
    pc,               \* idle, w_req, w_data, w_eom, next, read, closing
    site,             \* the _receive_event call being served: r1, r2, body
    stream,           \* options["stream"]
    chunks,           \* chunks the request body source has yet to produce
    resp,             \* the Response of the exchange: none, open, closed
    gen,              \* the _body_iter generator: none, fresh, active, suspended, finished
    status,           \* status code of the Response handed to the caller
    content,          \* body bytes yielded so far
    length,           \* Content-Length announced by the Response's headers
    pending,          \* outcome the running operation reports once the Response is closed
    \* the peer
    wire,             \* what the peer has yet to send in this exchange
    \* history
    wrote,            \* the event whose bytes were last handed to writer.write
    consumed,         \* events _receive_event returned, in order
    infos,            \* informational responses consumed in this exchange
    ioError,          \* a read or write of this exchange timed out
    overlap,          \* a send was accepted while another exchange was open
    sends,            \* exchanges accepted by the bound driver
    sendFailed,       \* a send on the bound driver has raised
    last              \* the last operation that returned or raised, with its outcome

facadeVars == <<h11_connection, h2_connection, release_func, h2_closed, drivers>>
exchangeVars == <<pc, site, stream, chunks, resp, gen, status, content, length,
                  pending, wire, wrote, consumed, infos, ioError, overlap, sends>>
vars == <<facadeVars, driver, exchangeVars, sendFailed, last>>

Outcome(op, result) == [op |-> op, result |-> result]

\* ------------------------------------------------------ HTTP11Connection
\* HTTP11Connection.__init__: a fresh h11 state over an open transport
DriverInit(hook) ==
    [h11_state |-> H11Init, writer_closed |-> FALSE, on_release |-> hook,
     decision |-> None, released |-> 0, hook_view |-> None]

\* is_closed that knows the CLOSED state only
is_closed_ClosedOnly(self) == self.h11_state.our_state = CLOSED

\* is_closed: the local role is in a terminal state
is_closed(self) == self.h11_state.our_state \in {CLOSED, ERROR}

\* close() that leaves the transport open
close_KeepTransport(self) ==
    [self EXCEPT !.h11_state = H11Send(@, "ConnectionClosed", FALSE).h]

\* close() that also reports to the release hook
close_AndRelease(self) ==
    [self EXCEPT !.h11_state = H11Send(@, "ConnectionClosed", FALSE).h,
                 !.writer_closed = TRUE,
                 !.released = IF self.on_release THEN @ + 1 ELSE @]

\* close() without the except clause: a rejected ConnectionClosed leaves
\* before the transport is closed
close_UnlessRejected(self) ==
    LET r == H11Send(self.h11_state, "ConnectionClosed", FALSE)
    IN [self EXCEPT !.h11_state = r.h, !.writer_closed = @ \/ ~r.raised]

\* close(): emit ConnectionClosed, tolerating the protocol error, and close
\* the transport unconditionally
close(self) ==
    [self EXCEPT !.h11_state = H11Send(@, "ConnectionClosed", FALSE).h,
                 !.writer_closed = TRUE]

\* response_closed that never reuses
ReuseOrClose_AlwaysClose(self) == [close(self) EXCEPT !.decision = "close"]

\* response_closed that replaces the h11 state by a fresh one
ReuseOrClose_FreshState(self) ==
    [self EXCEPT !.h11_state = H11Init, !.decision = "reset"]

\* response_closed that looks at the local state only
ReuseOrClose_OurDoneOnly(self) ==
    IF self.h11_state.our_state = DONE
    THEN [self EXCEPT !.h11_state.our_state = IDLE, !.h11_state.their_state = IDLE,
                      !.decision = "reset"]
    ELSE [close(self) EXCEPT !.decision = "close"]

\* the reuse-or-close decision of response_closed
ReuseOrClose(self) ==
    IF self.h11_state.our_state = DONE /\ self.h11_state.their_state = DONE
    THEN [self EXCEPT !.h11_state = H11StartNextCycle(@), !.decision = "reset"]
    ELSE [close(self) EXCEPT !.decision = "close"]

\* await self.on_release(), when a hook was supplied; the hook sees the
\* driver as it is when it is called
InvokeOnRelease(self) ==
    IF self.on_release
    THEN [self EXCEPT !.released = @ + 1, !.hook_view = self.decision]
    ELSE self

\* response_closed that releases before it decides
response_closed_ReleaseFirst(self) == ReuseOrClose(InvokeOnRelease(self))

\* response_closed(): decide, then release
response_closed(self) == InvokeOnRelease(ReuseOrClose(self))

\* _send_event that starts the next cycle itself when the local side is done
_send_event_LazyCycle(self, ev, connClose) ==
    LET h0 == IF ev = "Request" /\ self.h11_state.our_state = DONE
              THEN [self.h11_state EXCEPT !.our_state = IDLE, !.their_state = IDLE]
              ELSE self.h11_state
        r == H11Send(h0, ev, connClose)
    IN [self |-> [self EXCEPT !.h11_state = r.h], raised |-> r.raised]

\* _send_event, up to its await: hand the event to h11; the bytes go to the
\* transport only if h11 accepted the event
_send_event(self, ev, connClose) ==
    LET r == H11Send(self.h11_state, ev, connClose)
    IN [self |-> [self EXCEPT !.h11_state = r.h], raised |-> r.raised]

\* ------------------------------------------------------------------- Init
\* HTTPConnection.__init__: no driver is bound. (driver holds the object
\* h11_connection will refer to; nothing reads it while h11_connection is None.)
Init ==
    /\ h11_connection = None
    /\ h2_connection = None
    /\ release_func \in BOOLEAN
    /\ h2_closed = FALSE
    /\ drivers = 0
    /\ driver = DriverInit(release_func)
    /\ pc = "idle"
    /\ site = "r1"
    /\ stream = FALSE
    /\ chunks = 0
    /\ resp = "none"
    /\ gen = "none"
    /\ status = 0
    /\ content = <<>>
    /\ length = 0
    /\ pending = Outcome("none", "none")
    /\ wire = <<>>
    /\ wrote = "none"
    /\ consumed = <<>>
    /\ infos = 0
    /\ ioError = FALSE
    /\ overlap = FALSE
    /\ sends = 0
    /\ sendFailed = FALSE
    /\ last = Outcome("init", "none")

\* no coroutine and no Response on a driver that was just constructed
NoExchange ==
    /\ pc' = "idle"
    /\ site' = "r1"
    /\ stream' = FALSE
    /\ chunks' = 0
    /\ resp' = "none"
    /\ gen' = "none"
    /\ status' = 0
    /\ content' = <<>>
    /\ length' = 0
    /\ pending' = Outcome("none", "none")
    /\ wire' = <<>>
    /\ wrote' = "none"
    /\ consumed' = <<>>
    /\ infos' = 0
    /\ ioError' = FALSE
    /\ overlap' = FALSE
    /\ sends' = 0

\* where another call can reach the driver: no coroutine is running, or the
\* running one is suspended in writer.write or reader.read
CallPoints == {"idle", "w_req", "w_data", "w_eom", "read"}

\* an exchange is open on the driver: a send is in flight, or its Response
\* has not been closed
ExchangeOpen == pc # "idle" \/ resp = "open"

\* a send whose rejection also drops the exchange in flight
send_DropsExchange(self, isNew) ==
    IF _send_event(self, "Request", FALSE).raised
    THEN /\ driver' = _send_event(self, "Request", FALSE).self
         /\ last' = Outcome("send", "ProtocolError")
         /\ sendFailed' = TRUE
         /\ NoExchange
    ELSE /\ isNew \/ sends < MaxSends
         /\ \E st \in BOOLEAN, cc \in BOOLEAN, n \in 0..MaxChunks, scr \in Scripts :
                /\ driver' = [_send_event(self, "Request", cc).self
                                 EXCEPT !.decision = None, !.released = 0,
                                        !.hook_view = None]
                /\ stream' = st
                /\ chunks' = n
                /\ wire' = scr
         /\ pc' = "w_req"
         /\ site' = "r1"
         /\ resp' = "none"
         /\ gen' = "none"
         /\ status' = 0
         /\ content' = <<>>
         /\ length' = 0
         /\ pending' = Outcome("none", "none")
         /\ wrote' = "Request"
         /\ consumed' = <<>>
         /\ infos' = 0
         /\ ioError' = FALSE
         /\ overlap' = IF isNew THEN FALSE ELSE (overlap \/ ExchangeOpen)
         /\ sends' = IF isNew THEN 1 ELSE sends + 1
         /\ sendFailed' = IF isNew THEN FALSE ELSE sendFailed
         /\ UNCHANGED last

\* HTTP11Connection.send, lines 46-56: the request start goes to h11; if h11
\* rejects it the call raises at once, otherwise the coroutine suspends in
\* the write of the request start. self: the driver, isNew: it was
\* constructed by this call. The request (stream option st, Connection:
\* close cc, n body chunks) and what the peer will answer are the inputs.
send(self, isNew) ==
    IF _send_event(self, "Request", FALSE).raised
    THEN /\ driver' = _send_event(self, "Request", FALSE).self
         /\ last' = Outcome("send", "ProtocolError")
         /\ sendFailed' = TRUE
         /\ IF isNew THEN NoExchange ELSE UNCHANGED exchangeVars
    ELSE /\ isNew \/ sends < MaxSends
         /\ \E st \in BOOLEAN, cc \in BOOLEAN, n \in 0..MaxChunks, scr \in Scripts :
                /\ driver' = [_send_event(self, "Request", cc).self
                                 EXCEPT !.decision = None, !.released = 0,
                                        !.hook_view = None]
                /\ stream' = st
                /\ chunks' = n
                /\ wire' = scr
         /\ pc' = "w_req"
         /\ site' = "r1"
         /\ resp' = "none"
         /\ gen' = "none"
         /\ status' = 0
         /\ content' = <<>>
         /\ length' = 0
         /\ pending' = Outcome("none", "none")
         /\ wrote' = "Request"
         /\ consumed' = <<>>
         /\ infos' = 0
         /\ ioError' = FALSE
         /\ overlap' = IF isNew THEN FALSE ELSE (overlap \/ ExchangeOpen)
         /\ sends' = IF isNew THEN 1 ELSE sends + 1
         /\ sendFailed' = IF isNew THEN FALSE ELSE sendFailed
         /\ UNCHANGED last

\* ---------------------------------------------------------- HTTPConnection
Unconnected == h11_connection = None /\ h2_connection = None

\* HTTPConnection.connect, lines 64-70: construct the driver of the
\* negotiated protocol and bind it
connect(protocol) ==
    /\ drivers < MaxDrivers
    /\ drivers' = drivers + 1
    /\ IF protocol = "HTTP/2"
       THEN /\ h2_connection' = "HTTP2Connection"
            /\ h2_closed' = FALSE
            /\ UNCHANGED h11_connection
       ELSE /\ h11_connection' = "HTTP11Connection"
            /\ UNCHANGED <<h2_connection, h2_closed>>
    /\ UNCHANGED release_func

\* connect() called by the facade's user
HTTPConnection_connect ==
    /\ pc \in CallPoints
    /\ \/ /\ connect("HTTP/1.1")
          /\ driver' = DriverInit(release_func)
          /\ NoExchange
          /\ sendFailed' = FALSE
          /\ last' = Outcome("connect", "HTTP/1.1")
       \/ /\ connect("HTTP/2")
          /\ UNCHANGED <<driver, exchangeVars, sendFailed>>
          /\ last' = Outcome("connect", "HTTP/2")
       \/ /\ drivers < MaxDrivers
          /\ UNCHANGED <<facadeVars, driver, exchangeVars, sendFailed>>
          /\ last' = Outcome("connect", "ConnectTimeout")

\* HTTPConnection.send on an unconnected facade whose connect times out
SendConnectTimeout ==
    /\ Unconnected
    /\ pc \in CallPoints
    /\ drivers < MaxDrivers
    /\ UNCHANGED <<facadeVars, driver, exchangeVars, sendFailed>>
    /\ last' = Outcome("send", "ConnectTimeout")

\* HTTPConnection.send on an unconnected facade: connect, then the driver's send
SendConnectH11 ==
    /\ Unconnected
    /\ pc \in CallPoints
    /\ connect("HTTP/1.1")
    /\ send(DriverInit(release_func), TRUE)

SendConnectH2 ==
    /\ Unconnected
    /\ pc \in CallPoints
    /\ connect("HTTP/2")
    /\ UNCHANGED <<driver, exchangeVars, sendFailed>>
    /\ last' = Outcome("send", "HTTP/2")

\* HTTPConnection.send on a bound facade: the multiplexed driver if bound
SendH2 ==
    /\ h2_connection # None
    /\ pc \in CallPoints
    /\ UNCHANGED <<facadeVars, driver, exchangeVars, sendFailed>>
    /\ last' = Outcome("send", "HTTP/2")

\* a send that connects again once the bound driver is closed
SendH11_Reconnect ==
    /\ h2_connection = None
    /\ h11_connection # None
    /\ pc \in CallPoints
    /\ IF is_closed(driver)
       THEN connect("HTTP/1.1") /\ send(DriverInit(release_func), TRUE)
       ELSE UNCHANGED facadeVars /\ send(driver, FALSE)

SendH11 ==
    /\ h2_connection = None
    /\ h11_connection # None
    /\ pc \in CallPoints
    /\ UNCHANGED facadeVars
    /\ send(driver, FALSE)

\* HTTPConnection.close: the bound driver's close, or nothing
HTTPConnection_close ==
    /\ pc \in CallPoints
    /\ IF h2_connection # None
       THEN /\ h2_closed' = TRUE
            /\ UNCHANGED <<h11_connection, h2_connection, release_func, drivers, driver>>
       ELSE IF h11_connection # None
       THEN /\ driver' = close(driver)
            /\ UNCHANGED facadeVars
       ELSE UNCHANGED <<facadeVars, driver>>
    /\ UNCHANGED <<exchangeVars, sendFailed>>
    /\ last' = Outcome("close",
                       IF Unconnected THEN "noop"
                       ELSE IF h2_connection # None
                       THEN (IF h2_closed THEN "again" ELSE "closed")
                       ELSE IF driver.writer_closed THEN "again" ELSE "closed")

\* HTTPConnection.is_closed
HTTPConnection_is_closed ==
    IF h2_connection # None THEN (IF h2_closed THEN "True" ELSE "False")
    ELSE IF h11_connection = None THEN "AssertionError"
    ELSE IF is_closed(driver) THEN "True" ELSE "False"

\* ------------------------------------------- the coroutine on the driver
\* what a step of the coroutine may change, as a record; Step sets the
\* primed variables from it
Cur ==
    [driver |-> driver, pc |-> pc, site |-> site, resp |-> resp, gen |-> gen,
     status |-> status, content |-> content, length |-> length,
     pending |-> pending, consumed |-> consumed, infos |-> infos,
     sendFailed |-> sendFailed, last |-> last]

Step(nxt) ==
    /\ driver' = nxt.driver
    /\ pc' = nxt.pc
    /\ site' = nxt.site
    /\ resp' = nxt.resp
    /\ gen' = nxt.gen
    /\ status' = nxt.status
    /\ content' = nxt.content
    /\ length' = nxt.length
    /\ pending' = nxt.pending
    /\ consumed' = nxt.consumed
    /\ infos' = nxt.infos
    /\ sendFailed' = nxt.sendFailed
    /\ last' = nxt.last

\* _receive_event, lines 119 and 124: ask h11 for the peer's next event
_receive_event(self) ==
    LET r == H11NextEvent(self.h11_state)
    IN [self |-> [self EXCEPT !.h11_state = r.h], event |-> r.event,
        data |-> r.data, status |-> r.status]

\* an exception in the body of a buffered send that skips the Response's close
Raise_NoFinally(c, err) ==
    IF c.site \in {"r1", "r2"} \/ ~stream
    THEN [c EXCEPT !.pc = "idle", !.sendFailed = TRUE, !.last = Outcome("send", err)]
    ELSE [c EXCEPT !.pc = "idle", !.gen = "finished", !.last = Outcome("pull", err)]

\* An exception leaves _receive_event. Before the Response exists send
\* raises it (lines 68-72). In the body, the generator is finished by it
\* (lines 108-112): a streamed Response raises it from the caller's pull; a
\* buffered send first closes the Response (finally, lines 88-91).
Raise(c, err) ==
    IF c.site \in {"r1", "r2"}
    THEN [c EXCEPT !.pc = "idle", !.sendFailed = TRUE, !.last = Outcome("send", err)]
    ELSE IF stream
    THEN [c EXCEPT !.pc = "idle", !.gen = "finished", !.last = Outcome("pull", err)]
    ELSE [c EXCEPT !.pc = "closing", !.gen = "finished",
                   !.pending = Outcome("send", err)]

\* send, lines 72-93: the final response becomes the Response; a streamed
\* one is returned with its body unread, a buffered one is read at once
GotResponse(c, code) ==
    IF stream
    THEN [c EXCEPT !.resp = "open", !.status = code, !.gen = "fresh",
                   !.length = c.driver.h11_state.remaining,
                   !.pc = "idle", !.last = Outcome("send", "ok")]
    ELSE [c EXCEPT !.resp = "open", !.status = code, !.gen = "active",
                   !.length = c.driver.h11_state.remaining,
                   !.pc = "next", !.site = "body"]

\* send, lines 67-72: the event the first _receive_event returned; one
\* informational response is answered by a second _receive_event, whose
\* event must be the final response
AfterReceive(c, r) ==
    CASE r.event = "RemoteProtocolError" -> Raise(c, "RemoteProtocolError")
      [] r.event = "InformationalResponse" /\ c.site = "r1" ->
             [c EXCEPT !.infos = @ + 1, !.site = "r2", !.pc = "next"]
      [] r.event = "InformationalResponse" /\ c.site = "r2" ->
             Raise([c EXCEPT !.infos = @ + 1], "AssertionError")
      [] r.event = "Response" -> GotResponse(c, r.status)
      [] OTHER -> Raise(c, "AssertionError")

\* a body generator that yields the first data event's payload only
_body_iter_FirstChunkOnly(c, r) ==
    CASE r.event = "RemoteProtocolError" -> Raise(c, "RemoteProtocolError")
      [] r.event = "Data" ->
             IF stream
             THEN [c EXCEPT !.content = IF @ = <<>> THEN r.data ELSE @,
                            !.gen = "suspended",
                            !.pc = "idle", !.last = Outcome("pull", "chunk")]
             ELSE [c EXCEPT !.content = IF @ = <<>> THEN r.data ELSE @, !.pc = "next"]
      [] r.event = "EndOfMessage" ->
             [c EXCEPT !.gen = "finished", !.pc = "closing",
                       !.pending = IF stream THEN Outcome("pull", "end")
                                   ELSE Outcome("send", "ok")]
      [] OTHER -> Raise(c, "AssertionError")

\* _body_iter, lines 107-112: yield the data events' payloads up to the
\* end-of-message event; the Response is closed once its body is consumed
_body_iter(c, r) ==
    CASE r.event = "RemoteProtocolError" -> Raise(c, "RemoteProtocolError")
      [] r.event = "Data" ->
             IF stream
             THEN [c EXCEPT !.content = @ \o r.data, !.gen = "suspended",
                            !.pc = "idle", !.last = Outcome("pull", "chunk")]
             ELSE [c EXCEPT !.content = @ \o r.data, !.pc = "next"]
      [] r.event = "EndOfMessage" ->
             [c EXCEPT !.gen = "finished", !.pc = "closing",
                       !.pending = IF stream THEN Outcome("pull", "end")
                                   ELSE Outcome("send", "ok")]
      [] OTHER -> Raise(c, "AssertionError")

\* one call of h11's next_event inside _receive_event, and what the caller
\* of _receive_event does with the event; NEED_DATA suspends in reader.read
ReceiveNext ==
    /\ pc = "next"
    /\ LET r == _receive_event(driver)
           c == [Cur EXCEPT !.driver = r.self,
                            !.consumed = IF r.event \in {"NEED_DATA", "RemoteProtocolError"}
                                         THEN @ ELSE Append(@, r.event)]
       IN Step(IF r.event = "NEED_DATA" THEN [c EXCEPT !.pc = "read"]
               ELSE IF site = "body" THEN _body_iter(c, r)
               ELSE AfterReceive(c, r))
    /\ UNCHANGED <<facadeVars, stream, chunks, wire, wrote, ioError, overlap, sends>>

\* reader.read returns: some of what the peer sent, or b"" because the
\* peer closed; receive_data hands it to h11 (lines 122-123)
ReaderRead ==
    /\ pc = "read"
    /\ \E n \in 0..Len(wire) :
           /\ driver' = [driver EXCEPT !.h11_state = H11ReceiveData(@, Take(wire, n))]
           /\ wire' = IF n = 0 THEN <<>> ELSE Drop(wire, n)
    /\ pc' = "next"
    /\ UNCHANGED <<facadeVars, site, stream, chunks, resp, gen, status, content,
                   length, pending, wrote, consumed, infos, ioError, overlap,
                   sends, sendFailed, last>>

\* reader.read raises ReadTimeout (line 122)
ReadTimeout ==
    /\ pc = "read"
    /\ Step(Raise(Cur, "ReadTimeout"))
    /\ ioError' = TRUE
    /\ UNCHANGED <<facadeVars, stream, chunks, wire, wrote, overlap, sends>>

\* writer.write raises WriteTimeout (line 116): send raises it
WriteTimeout ==
    /\ pc \in {"w_req", "w_data", "w_eom"}
    /\ pc' = "idle"
    /\ last' = Outcome("send", "WriteTimeout")
    /\ sendFailed' = TRUE
    /\ ioError' = TRUE
    /\ UNCHANGED <<facadeVars, driver, site, stream, chunks, resp, gen, status,
                   content, length, pending, wire, wrote, consumed, infos,
                   overlap, sends>>

\* a send that starts reading once the body source is exhausted, without
\* writing the end-of-message
WriteDone_EarlyRead ==
    /\ pc \in {"w_req", "w_data", "w_eom"}
    /\ IF pc = "w_eom" \/ chunks = 0
       THEN /\ pc' = "next"
            /\ site' = "r1"
            /\ UNCHANGED <<driver, chunks, wrote, sendFailed, last>>
       ELSE LET r == _send_event(driver, "Data", FALSE)
            IN /\ driver' = r.self
               /\ site' = site
               /\ IF r.raised
                  THEN /\ pc' = "idle"
                       /\ last' = Outcome("send", "ProtocolError")
                       /\ sendFailed' = TRUE
                       /\ UNCHANGED <<chunks, wrote>>
                  ELSE /\ pc' = "w_data"
                       /\ chunks' = chunks - 1
                       /\ wrote' = "Data"
                       /\ UNCHANGED <<sendFailed, last>>
    /\ UNCHANGED <<facadeVars, stream, resp, gen, status, content, length, pending,
                   wire, consumed, infos, ioError, overlap, sends>>

\* writer.write returns (line 116): send goes on to the next body chunk, to
\* the end-of-message, or to the first _receive_event (lines 58-68)
WriteDone ==
    /\ pc \in {"w_req", "w_data", "w_eom"}
    /\ IF pc = "w_eom"
       THEN /\ pc' = "next"
            /\ site' = "r1"
            /\ UNCHANGED <<driver, chunks, wrote, sendFailed, last>>
       ELSE LET ev == IF chunks > 0 THEN "Data" ELSE "EndOfMessage"
                r == _send_event(driver, ev, FALSE)
            IN /\ driver' = r.self
               /\ site' = site
               /\ IF r.raised
                  THEN /\ pc' = "idle"
                       /\ last' = Outcome("send", "ProtocolError")
                       /\ sendFailed' = TRUE
                       /\ UNCHANGED <<chunks, wrote>>
                  ELSE /\ pc' = IF chunks > 0 THEN "w_data" ELSE "w_eom"
                       /\ chunks' = IF chunks > 0 THEN chunks - 1 ELSE 0
                       /\ wrote' = ev
                       /\ UNCHANGED <<sendFailed, last>>
    /\ UNCHANGED <<facadeVars, stream, resp, gen, status, content, length, pending,
                   wire, consumed, infos, ioError, overlap, sends>>

\* ------------------------------------------------------------ the Response
\* Response.close(): the close hook (the driver's response_closed) runs the
\* first time only
Response_close(state, self) ==
    IF state = "open" THEN response_closed(self) ELSE self

\* the Response closes itself after its body is consumed, and a buffered
\* send closes it before it returns or raises (lines 87-93)
ResponseAutoClose ==
    /\ pc = "closing"
    /\ driver' = Response_close(resp, driver)
    /\ resp' = "closed"
    /\ pc' = "idle"
    /\ last' = pending
    /\ sendFailed' = (sendFailed \/ (pending.op = "send" /\ pending.result # "ok"))
    /\ UNCHANGED <<facadeVars, site, stream, chunks, gen, status, content, length,
                   pending, wire, wrote, consumed, infos, ioError, overlap, sends>>

\* the caller closes the Response it was handed
ResponseClose ==
    /\ pc = "idle"
    /\ resp \in {"open", "closed"}
    /\ driver' = Response_close(resp, driver)
    /\ resp' = "closed"
    /\ gen' = IF gen \in {"fresh", "suspended"} THEN "finished" ELSE gen
    /\ last' = Outcome("Response.close", IF resp = "open" THEN "closed" ELSE "noop")
    /\ UNCHANGED sendFailed
    /\ UNCHANGED <<facadeVars, pc, site, stream, chunks, status, content, length,
                   pending, wire, wrote, consumed, infos, ioError, overlap, sends>>

\* the caller pulls the next chunk of a streamed body
BodyPull ==
    /\ pc = "idle"
    /\ stream
    /\ resp = "open"
    /\ gen \in {"fresh", "suspended"}
    /\ pc' = "next"
    /\ site' = "body"
    /\ gen' = "active"
    /\ UNCHANGED <<facadeVars, driver, stream, chunks, resp, status, content, length,
                   pending, wire, wrote, consumed, infos, ioError, overlap, sends,
                   sendFailed, last>>

\* --------------------------------------------------------------------- Next
Next ==
    \/ HTTPConnection_connect
    \/ SendConnectTimeout
    \/ SendConnectH11
    \/ SendConnectH2
    \/ SendH2
    \/ SendH11
    \/ HTTPConnection_close
    \/ WriteDone
    \/ WriteTimeout
    \/ ReceiveNext
    \/ ReaderRead
    \/ ReadTimeout
    \/ ResponseAutoClose
    \/ ResponseClose
    \/ BodyPull

Spec == Init /\ [][Next]_vars

\* on_close invoked again for a Response that is already closed
response_closed_again ==
    /\ pc = "idle"
    /\ h11_connection # None
    /\ resp = "closed"
    /\ driver.released < MaxReleases
    /\ driver' = response_closed(driver)
    /\ last' = Outcome("response_closed", "again")
    /\ UNCHANGED <<facadeVars, exchangeVars, sendFailed>>

SpecReentry == Init /\ [][Next \/ response_closed_again]_vars

\* ------------------------------------------------------------------ claims
Bound11 == h11_connection # None
BothDone(self) ==
    self.h11_state.our_state = DONE /\ self.h11_state.their_state = DONE
BothIdle(self) ==
    self.h11_state.our_state = IDLE /\ self.h11_state.their_state = IDLE
\* a send called now on the driver raises
Rejected(self) == _send_event(self, "Request", FALSE).raised
\* the Response of the exchange is closed by this step
Closing == resp = "open" /\ resp' = "closed"
DriverErrors ==
    {"ProtocolError", "WriteTimeout", "ReadTimeout", "RemoteProtocolError",
     "AssertionError"}

\* C1: when the Response of an exchange is closed with both states DONE,
\* both states are reset to IDLE, the transport stays open, the hook (if
\* any) has then been invoked exactly once in the exchange and never more,
\* and a send called next is accepted by the same driver.
C1_KeepAliveCycling ==
    /\ [](driver.released <= 1)
    /\ [][(Closing /\ BothDone(driver)) =>
              /\ BothIdle(driver')
              /\ ~driver'.writer_closed
              /\ driver'.decision = "reset"
              /\ driver'.released = (IF driver.on_release THEN 1 ELSE 0)
              /\ ~Rejected(driver')
              /\ drivers' = drivers]_vars

\* C1 witness: a second consecutive exchange completed on the same driver
\* and transport, and was cycled as well
C1_SecondExchangeCycled ==
    /\ Bound11
    /\ drivers = 1
    /\ sends >= 2
    /\ resp = "closed"
    /\ driver.decision = "reset"
    /\ driver.released = 1
    /\ ~driver.writer_closed
    /\ last = Outcome("send", "ok")

\* forced to must-close: a timeout, a protocol error on either side, or
\* keep-alive disabled (Connection: close)
Doomed ==
    \/ ioError
    \/ ~driver.h11_state.keep_alive
    \/ driver.h11_state.our_state \in {MUST_CLOSE, CLOSED, ERROR}
    \/ driver.h11_state.their_state \in {MUST_CLOSE, CLOSED, ERROR}

\* C2: once the driver is forced to must-close, a send called in any later
\* state is rejected, whether or not the Response has been closed, and the
\* driver accepts no further exchange.
C2_SingleReuse ==
    /\ []((Bound11 /\ Doomed) => Rejected(driver))
    /\ [][(Bound11 /\ Doomed /\ drivers' = drivers) =>
              (Doomed' /\ sends' = sends)]_vars

\* C2 witness: a send was rejected after the peer's Connection: close while
\* the Response was still open
C2_RejectedAfterConnectionClose ==
    /\ Bound11
    /\ ~driver.h11_state.keep_alive
    /\ resp = "open"
    /\ gen = "fresh"
    /\ last = Outcome("send", "ProtocolError")

\* C3 (as claimed): every send that raised on a driver with a hook has had
\* the release hook invoked exactly once.
C3_ReleaseOncePerSend ==
    (Bound11 /\ driver.on_release /\ pc = "idle" /\ last.op = "send"
        /\ last.result \in DriverErrors)
      => (driver.released = 1 /\ driver.hook_view \in {"reset", "close"})

\* C4 (as claimed): a send that met informational responses and no I/O or
\* protocol failure returns the final response, whatever their number.
C4_InformationalSkip ==
    (Bound11 /\ infos >= 1 /\ pc = "idle" /\ last.op = "send"
        /\ last.result \notin {"ProtocolError", "WriteTimeout", "ReadTimeout",
                               "RemoteProtocolError", "ConnectTimeout", "HTTP/2"})
      => (last.result = "ok" /\ status = 200 /\ resp # "none")

\* C5: while an exchange is open on the driver (a send in flight, or its
\* Response unclosed) a send called now is rejected, and no send was ever
\* accepted while another exchange was open.
C5_SequentialUse ==
    /\ ~overlap
    /\ (Bound11 /\ ExchangeOpen) => Rejected(driver)

\* C5 witness: a second send was rejected while the first was suspended in
\* a read of the response body
C5_RejectedWhileReading ==
    /\ Bound11
    /\ pc = "read"
    /\ site = "body"
    /\ sends = 1
    /\ last = Outcome("send", "ProtocolError")

\* C6 (as claimed): a second invocation of response_closed for the same
\* exchange changes nothing of the driver.
C6_SecondResponseClosedNoOp ==
    [][response_closed_again => driver' = driver]_vars

\* C6 (amended): closing a Response that is already closed does not reach
\* the driver, and close() of a driver whose transport is already closed
\* leaves the protocol state, the transport and the hook count as they are.
C6_IdempotentClose ==
    [][((ResponseClose /\ resp = "closed")
          \/ (HTTPConnection_close /\ h2_connection = None /\ Bound11
                /\ driver.writer_closed))
         => driver' = driver]_vars

\* C6 witness: a second close() of a driver that had released once
C6_ClosedTwice ==
    /\ Bound11
    /\ h2_connection = None
    /\ driver.writer_closed
    /\ driver.released = 1
    /\ last = Outcome("close", "again")

\* the driver's close ran in this step
DriverCloseStep == HTTPConnection_close /\ h2_connection = None /\ Bound11

\* C7: after a send on the driver has raised, every send called later is
\* rejected; a timeout leaves the protocol state where it was; and the next
\* response_closed or close() closes the transport.
C7_ErrorLeavesNonReusable ==
    /\ []((Bound11 /\ sendFailed) => Rejected(driver))
    /\ [][(ioError' /\ ~ioError) => driver'.h11_state = driver.h11_state]_vars
    /\ [][(sendFailed /\ (Closing \/ DriverCloseStep)) =>
              (driver'.writer_closed /\ is_closed(driver'))]_vars

\* C7 witness: a send timed out on a write and close() then closed the
\* transport
C7_ClosedAfterWriteTimeout ==
    /\ Bound11
    /\ sendFailed
    /\ ioError
    /\ resp = "none"
    /\ driver.writer_closed
    /\ last = Outcome("close", "closed")

\* C8: the Response of an exchange in which a read or write timed out is
\* never closed by a reset: the connection is closed; a reset happens only
\* with both states DONE and no timeout in the exchange.
C8_NoResetAfterTimeout ==
    /\ [](ioError => (driver.decision # "reset" /\ ~BothIdle(driver)))
    /\ [][(Closing /\ ioError) =>
              (driver'.decision = "close" /\ driver'.writer_closed
                 /\ is_closed(driver'))]_vars
    /\ [][(driver'.decision = "reset" /\ driver.decision # "reset") =>
              (~ioError /\ BothDone(driver))]_vars

\* C8 witness: a body read timed out and the Response was then closed
C8_ClosedAfterBodyTimeout ==
    /\ Bound11
    /\ ioError
    /\ site = "body"
    /\ resp = "closed"
    /\ driver.decision = "close"
    /\ driver.writer_closed

\* C9 (as claimed): never both drivers bound, and at most one driver
\* instance is ever constructed.
C9_BoundOnce ==
    /\ ~(h11_connection # None /\ h2_connection # None)
    /\ drivers <= 1

\* C10 (as claimed): is_closed of an unconnected facade returns true.
C10_IsClosedBeforeConnect ==
    Unconnected => HTTPConnection_is_closed = "True"

\* C11: a buffered send that has built its Response returns or raises only
\* with the Response closed, the reuse-or-close decision made and the hook
\* (if any) invoked; when it returns, the whole announced body was drained;
\* when a body read failed, it raises that read's error, and the connection
\* was closed, not reset.
C11_BufferedDrain ==
    /\ []((Bound11 /\ ~stream /\ pc = "idle" /\ resp # "none") =>
             (/\ resp = "closed"
              /\ gen = "finished"
              /\ driver.decision \in {"reset", "close"}
              /\ driver.released = (IF driver.on_release THEN 1 ELSE 0)))
    /\ [][(ResponseAutoClose /\ ~stream) =>
             /\ last'.op = "send"
             /\ last'.result \in {"ok", "ReadTimeout", "RemoteProtocolError"}
             /\ (last'.result = "ok" => content = BodyBytes(length))
             /\ (ioError => last'.result = "ReadTimeout")
             /\ (driver.h11_state.their_state = ERROR =>
                    last'.result = "RemoteProtocolError")
             /\ (last'.result # "ok" =>
                    (/\ driver'.decision = "close"
                     /\ driver'.writer_closed
                     /\ is_closed(driver')
                     /\ ~BothIdle(driver')))]_vars

\* C11 witness: a buffered send raised the timeout of a body read after the
\* Response was closed, the connection closed and the hook invoked
C11_BufferedReadError ==
    /\ Bound11
    /\ ~stream
    /\ pc = "idle"
    /\ site = "body"
    /\ resp = "closed"
    /\ last = Outcome("send", "ReadTimeout")
    /\ driver.decision = "close"
    /\ driver.writer_closed
    /\ driver.on_release
    /\ driver.hook_view = "close"

\* a write was handed to the transport in this step
WriteIssued ==
    pc' \in {"w_req", "w_data", "w_eom"} /\ (pc' # pc \/ chunks' # chunks)

\* the peer's events in the order informational responses, final response,
\* body data, end-of-message
PeerOrder(s) ==
    \A i \in 1..Len(s) :
        CASE s[i] \in {"InformationalResponse", "Response"} ->
                 \A j \in 1..(i - 1) : s[j] = "InformationalResponse"
          [] s[i] \in {"Data", "EndOfMessage"} ->
                 i > 1 /\ s[i - 1] \in {"Response", "Data"}
          [] OTHER -> FALSE

BodyEnded == consumed # <<>> /\ consumed[Len(consumed)] = "EndOfMessage"

\* C13: whatever the reads return, the bytes yielded so far are the first
\* bytes of the announced body, in order and never more than announced; when
\* the body ends they are all of it; a read of the transport is issued for
\* the body only while bytes are missing, and once all were delivered the
\* next step of the generator ends the body.
C13_BodyExactness ==
    /\ [](Len(content) <= length /\ content = BodyBytes(Len(content)))
    /\ [](BodyEnded => content = BodyBytes(length))
    /\ []((pc = "read" /\ site = "body") => Len(content) < length)
    /\ [][(pc = "next" /\ site = "body" /\ Len(content) = length) =>
             (pc' = "closing" /\ gen' = "finished"
                /\ consumed' = Append(consumed, "EndOfMessage")
                /\ wire' = wire)]_vars

\* C13 witness: a body of two bytes arrived one byte per read and was
\* yielded whole
C13_TwoByteBodyInTwoChunks ==
    /\ Bound11
    /\ length = 2
    /\ consumed = <<"Response", "Data", "Data", "EndOfMessage">>
    /\ content = BodyBytes(2)
    /\ gen = "finished"

\* C14: close() of the driver, called in any protocol state, returns without
\* an error and with the transport closed, also when h11 rejects the
\* ConnectionClosed event; it touches nothing of the exchange in flight.
C14_CloseBestEffort ==
    /\ [](Bound11 => close(driver).writer_closed)
    /\ [][DriverCloseStep =>
             /\ driver'.writer_closed
             /\ driver'.h11_state = H11Send(driver.h11_state, "ConnectionClosed", FALSE).h
             /\ last'.op = "close"
             /\ last'.result \in {"closed", "again"}
             /\ UNCHANGED <<facadeVars, exchangeVars>>]_vars

\* C14 witness: close() was called while the request body was being sent;
\* h11 rejected ConnectionClosed and the transport was closed all the same
C14_ClosedWhileSendingBody ==
    /\ Bound11
    /\ h2_connection = None
    /\ pc = "w_data"
    /\ ~sendFailed
    /\ driver.h11_state.our_state = ERROR
    /\ driver.writer_closed
    /\ last = Outcome("close", "closed")

\* the caller closes a streamed Response whose body generator has not
\* reached the end of the body
ClosingUnread ==
    ResponseClose /\ resp = "open" /\ stream /\ gen \in {"fresh", "suspended"}

\* C15: closing a streamed Response whose body was not read to its end
\* leaves the driver terminal (our_state CLOSED or ERROR, transport closed,
\* no reset to IDLE), and the release hook, if any, is invoked once, after
\* the connection was closed.
C15_UnreadClose ==
    [][ClosingUnread =>
          /\ is_closed(driver')
          /\ driver'.writer_closed
          /\ ~BothIdle(driver')
          /\ driver'.decision = "close"
          /\ driver'.released = (IF driver.on_release THEN 1 ELSE 0)
          /\ (driver.on_release => driver'.hook_view = "close")
          /\ Rejected(driver')]_vars

\* C15 witness: a streamed Response was closed after one of the two bytes
\* of its body was read, and the hook saw the closed connection
C15_ClosedPartlyRead ==
    /\ Bound11
    /\ stream
    /\ resp = "closed"
    /\ length = 2
    /\ Len(content) = 1
    /\ ~ioError
    /\ driver.h11_state.our_state = CLOSED
    /\ driver.writer_closed
    /\ driver.hook_view = "close"
    /\ last = Outcome("Response.close", "closed")

\* C16 (as claimed): close() of an unconnected facade changes nothing (no
\* transport, no binding, no hook); close() of a bound facade closes each
\* driver the facade is bound to; the binding is left as it was.
C16_FacadeClose ==
    [][HTTPConnection_close =>
          /\ UNCHANGED <<h11_connection, h2_connection, release_func, drivers>>
          /\ UNCHANGED exchangeVars
          /\ (Unconnected => UNCHANGED <<h2_closed, driver>>)
          /\ (h2_connection # None => h2_closed')
          /\ (h11_connection # None => driver' = close(driver))]_vars

\* C17 (as claimed): close() of the driver leaves is_closed true; is_closed
\* of a driver, once true, stays true; and is_closed is true only of a
\* driver whose transport has been closed.
C17_ClosedIffTransportClosed ==
    /\ [][DriverCloseStep => is_closed(driver')]_vars
    /\ [][(Bound11 /\ is_closed(driver) /\ drivers' = drivers) =>
             is_closed(driver')]_vars
    /\ []((Bound11 /\ is_closed(driver)) => driver.writer_closed)

\* C17 (amended): close() of the driver, called by the facade or by
\* response_closed, leaves is_closed true; is_closed of a driver, once
\* true, stays true; and a driver whose transport has been closed has
\* is_closed true.
C17_ClosedStaysClosed ==
    /\ [][(DriverCloseStep \/ (Closing /\ driver'.decision = "close")) =>
             (is_closed(driver') /\ driver'.writer_closed)]_vars
    /\ [][(Bound11 /\ is_closed(driver) /\ drivers' = drivers) =>
             is_closed(driver')]_vars
    /\ []((Bound11 /\ driver.writer_closed) => is_closed(driver))

\* C17 witness: a driver was closed before any exchange, a send called
\* afterwards was rejected, and is_closed is still true
C17_StillClosedAfterSend ==
    /\ Bound11
    /\ h2_connection = None
    /\ sends = 0
    /\ pc = "idle"
    /\ driver.writer_closed
    /\ is_closed(driver)
    /\ last = Outcome("send", "ProtocolError")

\* a send is rejected by the bound driver in this step
SendRejected == Rejected(driver) /\ SendH11

\* C18 (as claimed): a send the driver rejects hands nothing to the
\* transport and leaves the protocol state, and the exchange in flight, as
\* they were.
C18_RejectedSendNoEffect ==
    [][SendRejected =>
          /\ wrote' = wrote
          /\ UNCHANGED exchangeVars
          /\ driver'.h11_state = driver.h11_state]_vars

\* C18 (amended): a rejected send hands nothing to the transport and
\* touches nothing of the exchange in flight, but it leaves our_state in
\* ERROR (their_state as it was, or MUST_CLOSE); from then on nothing is
\* written on that driver and the Response of the exchange in flight, when
\* closed, closes the connection.
C18_RejectedSendPoisons ==
    /\ [][SendRejected =>
             /\ UNCHANGED exchangeVars
             /\ last' = Outcome("send", "ProtocolError")
             /\ driver'.writer_closed = driver.writer_closed
             /\ driver'.released = driver.released
             /\ driver'.h11_state.our_state = ERROR
             /\ driver'.h11_state.their_state \in
                    {driver.h11_state.their_state, MUST_CLOSE}
             /\ driver'.h11_state.receive_buffer = driver.h11_state.receive_buffer
             /\ driver'.h11_state.remaining = driver.h11_state.remaining]_vars
    /\ [][(Bound11 /\ driver.h11_state.our_state = ERROR /\ drivers' = drivers) =>
             (~WriteIssued /\ driver'.h11_state.our_state = ERROR)]_vars
    /\ [][(Closing /\ driver.h11_state.our_state = ERROR) =>
             (driver'.decision = "close" /\ driver'.writer_closed)]_vars

\* C18 witness: a send was rejected while a buffered send was in flight;
\* that send still read its whole body and returned, and the connection
\* was closed instead of reused
C18_FirstExchangeCompleted ==
    /\ Bound11
    /\ sends = 1
    /\ sendFailed
    /\ ~stream
    /\ pc = "idle"
    /\ resp = "closed"
    /\ content = BodyBytes(2)
    /\ driver.h11_state.our_state = ERROR
    /\ driver.decision = "close"
    /\ last = Outcome("send", "ok")

\* HTTPConnection.send is called in this step
SendStep ==
    SendConnectTimeout \/ SendConnectH11 \/ SendConnectH2 \/ SendH2 \/ SendH11

\* a connect, called by send or by the caller, timed out in this step
ConnectFailed ==
    SendConnectTimeout \/ (HTTPConnection_connect /\ last'.result = "ConnectTimeout")

\* C19: a connect that fails binds nothing and opens nothing; a send on an
\* unconnected facade always goes through connect (it either fails with
\* the connect's error or leaves a new driver bound); a send on a bound
\* facade never does (no step that binds a driver or constructs one on a
\* bound facade is a send); and a bound facade stays bound, so once a
\* connect has succeeded no send opens another transport.
C19_SendConnectsIffUnbound ==
    /\ [][ConnectFailed => UNCHANGED <<facadeVars, driver, exchangeVars>>]_vars
    /\ [][(Unconnected /\ SendStep) =>
             \/ (last' = Outcome("send", "ConnectTimeout") /\ Unconnected')
             \/ (drivers' = drivers + 1 /\ ~Unconnected')]_vars
    /\ [][(~Unconnected /\ ~UNCHANGED <<h11_connection, h2_connection, drivers>>) =>
             ~SendStep]_vars
    /\ [](drivers >= 1 => ~Unconnected)

\* C19 witness: a send failed with the connect's timeout and the next send
\* connected and is writing its request on the first driver
C19_ConnectedAfterTimeout ==
    /\ Bound11
    /\ h2_connection = None
    /\ drivers = 1
    /\ sends = 1
    /\ pc = "w_req"
    /\ last = Outcome("send", "ConnectTimeout")

\* the facade is bound to an HTTP/1.1 driver that has been closed
ClosedFacade == Bound11 /\ h2_connection = None /\ driver.writer_closed

\* C20 (as claimed): once the HTTP/1.1 driver a facade is bound to has been
\* closed, the facade opens no other transport and stays bound to that
\* driver, is_closed stays true, and every later send fails.
C20_NoReconnectAfterClose ==
    /\ [](ClosedFacade => HTTPConnection_is_closed = "True")
    /\ [][ClosedFacade => (ClosedFacade' /\ drivers' = drivers)]_vars
    /\ [][(ClosedFacade /\ SendStep) =>
             last' = Outcome("send", "ProtocolError")]_vars

====
